---------------------------- MODULE Spec2Model ----------------------------
(***************************************************************************)
(* Model of the instruction-routing orchestrator (src/agent/myagent.py)    *)
(* and of the egress webhook (src/livekit-dashboard/app/routes/egress.py). *)
(*                                                                         *)
(* A Python str is a sequence of one-character strings, so that lower(),   *)
(* strip(), the f-string building the route and the dispatcher's exact     *)
(* match are computed, not assumed.  The instruction templates are kept as *)
(* atomic strings: the code only stores and returns them.                  *)
(***************************************************************************)
EXTENDS Integers, Sequences, FiniteSets, TLC

VARIABLES
    ORCHESTRATOR,   \* the module-level compiled graph (myagent.py:179)
    pc,             \* per caller: position inside get_orchestrated_instructions
    arg,            \* per caller: the (selected_lang, task_mode) of its call
    next,           \* per caller: the graph node the traversal runs next
    st,             \* per caller: the OrchestrationState threaded through the graph
    visited,        \* per caller: the nodes the traversal has run, in order
    ret,            \* per caller: the (route, instructions) pair returned
    seen,           \* observer: the pairs handed back to callers so far
    active,         \* the LiveKit server's active egress jobs, counted per room and origin
    hk,             \* per webhook delivery: position inside livekit_webhook
    ep,             \* the agent job: position inside entrypoint and its locals
    fr              \* the recording request: serve_recording and its iter_file_range

orchVars == <<ORCHESTRATOR, pc, arg, next, st, visited, ret>>

hookVars == <<active, hk>>

auxVars == <<ep, fr>>

vars == <<ORCHESTRATOR, pc, arg, next, st, visited, ret, seen, active, hk, ep, fr>>

-----------------------------------------------------------------------------
(* Strings                                                                 *)

UpperChars == <<"A","B","C","D","E","F","G","H","I","J","K","L","M",
                "N","O","P","Q","R","S","T","U","V","W","X","Y","Z">>

LowerChars == <<"a","b","c","d","e","f","g","h","i","j","k","l","m",
                "n","o","p","q","r","s","t","u","v","w","x","y","z">>

\* The characters str.strip() removes (ASCII part of str.isspace()).
Whitespace == {" ", "\t", "\n", "\r", "\f"}

LowerOf == [c \in {UpperChars[i] : i \in DOMAIN UpperChars} |->
               LowerChars[CHOOSE i \in DOMAIN UpperChars : UpperChars[i] = c]]

lower_char(c) == IF c \in DOMAIN LowerOf THEN LowerOf[c] ELSE c

\* str.lower(): every cased character replaced by its lower-case form.
lower(s) == [i \in 1..Len(s) |-> lower_char(s[i])]

RECURSIVE lstrip(_)
lstrip(s) ==
    IF s # <<>> /\ Head(s) \in Whitespace THEN lstrip(Tail(s)) ELSE s

RECURSIVE rstrip(_)
rstrip(s) ==
    IF s # <<>> /\ s[Len(s)] \in Whitespace
    THEN rstrip(SubSeq(s, 1, Len(s) - 1))
    ELSE s

\* str.strip(): leading and trailing whitespace removed.
strip(s) == rstrip(lstrip(s))

-----------------------------------------------------------------------------
(* Names of the graph and of the state                                     *)

W_general   == <<"g","e","n","e","r","a","l">>
W_sales     == <<"s","a","l","e","s">>
W_support   == <<"s","u","p","p","o","r","t">>
W_technical == <<"t","e","c","h","n","i","c","a","l">>
W_hi        == <<"h","i">>
W_en        == <<"e","n">>
W_us        == <<"_">>

SUPPORTED_MODES == {W_general, W_sales, W_support, W_technical}

N_supervisor   == <<"s","u","p","e","r","v","i","s","o","r">>
N_general_hi   == W_general \o W_us \o W_hi
N_general_en   == W_general \o W_us \o W_en
N_sales_hi     == W_sales \o W_us \o W_hi
N_sales_en     == W_sales \o W_us \o W_en
N_support_hi   == W_support \o W_us \o W_hi
N_support_en   == W_support \o W_us \o W_en
N_technical_hi == W_technical \o W_us \o W_hi
N_technical_en == W_technical \o W_us \o W_en

\* langgraph's END sentinel, "__end__".
END == <<"_","_","e","n","d","_","_">>

TerminalNames == <<N_general_hi, N_general_en, N_sales_hi, N_sales_en,
                   N_support_hi, N_support_en, N_technical_hi, N_technical_en>>


Terminals == {TerminalNames[i] : i \in DOMAIN TerminalNames}

-----------------------------------------------------------------------------
(* The nodes                                                               *)

\* {**state, k1: v1, ...}: a new dict, the keys of updates overriding state's.
DictMerge(state, updates) == updates @@ state

\* Mutant: the mode is lower-cased but not trimmed.
normalize_task_mode_no_strip(task_mode) == lower(task_mode)

\* state["task_mode"].lower().strip()
normalize_task_mode(task_mode) == strip(lower(task_mode))

\* Mutant: an unrecognized mode is passed through instead of clamped.
clamp_task_mode_no_fallback(task_mode) == task_mode

\* if task_mode not in SUPPORTED_MODES: task_mode = "general"
clamp_task_mode(task_mode) ==
    IF task_mode \notin SUPPORTED_MODES THEN W_general ELSE task_mode

\* Mutant: the language is compared case-insensitively and trimmed.
lang_suffix_normalized(selected_lang) ==
    IF strip(lower(selected_lang)) = W_hi THEN W_hi ELSE W_en

\* 'hi' if selected_lang == 'hi' else 'en'
lang_suffix(selected_lang) ==
    IF selected_lang = W_hi THEN W_hi ELSE W_en

\* Mutant: the supervisor also rewrites selected_lang to the suffix it chose.
_supervisor_node_rewrites_lang(state) ==
    LET selected_lang == lang_suffix(state["selected_lang"])
        task_mode     == clamp_task_mode(normalize_task_mode(state["task_mode"]))
        route         == task_mode \o W_us \o selected_lang
    IN  DictMerge(state, [selected_lang |-> selected_lang,
                          task_mode |-> task_mode, route |-> route])

_supervisor_node(state) ==
    LET selected_lang == state["selected_lang"]
        task_mode     == clamp_task_mode(normalize_task_mode(state["task_mode"]))
        route         == task_mode \o W_us \o lang_suffix(selected_lang)
    IN  DictMerge(state, [task_mode |-> task_mode, route |-> route])

T_general_hi ==
    "You are a helpful general-purpose voice assistant. Respond primarily in Hindi. Keep responses short and concise. Never use emojis."

T_general_en ==
    "You are a helpful general-purpose voice assistant. Respond in English. Keep responses short and concise. Never use emojis."

T_sales_hi ==
    "You are a Hindi sales assistant. Understand user needs first, then recommend suitable options with clear benefits and price clarity. Keep responses short and concise. Never use emojis."

T_sales_en ==
    "You are an English sales assistant. Understand user needs first, then recommend suitable options with clear benefits and price clarity. Keep responses short and concise. Never use emojis."

T_support_hi ==
    "You are a Hindi customer support assistant. Diagnose the problem step-by-step, ask only necessary follow-up questions, and provide actionable fixes. Keep responses short and concise. Never use emojis."

T_support_en ==
    "You are an English customer support assistant. Diagnose the problem step-by-step, ask only necessary follow-up questions, and provide actionable fixes. Keep responses short and concise. Never use emojis."

T_technical_hi ==
    "You are a Hindi technical assistant. Explain technical concepts accurately, provide practical implementation steps, and call out assumptions. Keep responses short and concise. Never use emojis."

T_technical_en ==
    "You are an English technical assistant. Explain technical concepts accurately, provide practical implementation steps, and call out assumptions. Keep responses short and concise. Never use emojis."

_general_hi_node(state)   == DictMerge(state, [instructions |-> T_general_hi])
_general_en_node(state)   == DictMerge(state, [instructions |-> T_general_en])
_sales_hi_node(state)     == DictMerge(state, [instructions |-> T_sales_hi])
\* Mutant: the English sales node carries the Hindi sales text.
_sales_en_node_copied(state) == DictMerge(state, [instructions |-> T_sales_hi])
_sales_en_node(state)     == DictMerge(state, [instructions |-> T_sales_en])
_support_hi_node(state)   == DictMerge(state, [instructions |-> T_support_hi])
_support_en_node(state)   == DictMerge(state, [instructions |-> T_support_en])
_technical_hi_node(state) == DictMerge(state, [instructions |-> T_technical_hi])
_technical_en_node(state) == DictMerge(state, [instructions |-> T_technical_en])

\* Mutant: the router reads the route of whichever traversal wrote one first,
\* as a router bound to a module-level variable would.
_route_from_supervisor_global(state) ==
    LET writers == {d \in DOMAIN st : visited[d] # <<>>}
    IN  IF writers = {} THEN state["route"]
        ELSE st[CHOOSE d \in writers : TRUE]["route"]

_route_from_supervisor(state) == state["route"]

-----------------------------------------------------------------------------
(* The graph                                                               *)

\* graph.add_node(name, fn): the function registered under each node name.
NodeFn(name, state) ==
    CASE name = N_supervisor   -> _supervisor_node(state)
      [] name = N_general_hi   -> _general_hi_node(state)
      [] name = N_general_en   -> _general_en_node(state)
      [] name = N_sales_hi     -> _sales_hi_node(state)
      [] name = N_sales_en     -> _sales_en_node(state)
      [] name = N_support_hi   -> _support_hi_node(state)
      [] name = N_support_en   -> _support_en_node(state)
      [] name = N_technical_hi -> _technical_hi_node(state)
      [] name = N_technical_en -> _technical_en_node(state)

\* Mutant: the mapping lacks the entry of one terminal.
path_map_missing_entry == [k \in Terminals \ {N_technical_en} |-> k]

\* The mapping given to add_conditional_edges: route key -> node name.
path_map == [k \in Terminals |-> k]

\* Mutant: one terminal is wired to another terminal instead of END.
edge_target_chained(node_name) ==
    IF node_name = N_general_hi THEN N_general_en ELSE END

\* for node_name in [...]: graph.add_edge(node_name, END)
edge_target(node_name) == END

build_orchestrator ==
    [ entry_point |-> N_supervisor,
      nodes       |-> {N_supervisor} \cup Terminals,
      branch_from |-> N_supervisor,
      path_map    |-> path_map,
      edges       |-> [n \in Terminals |-> edge_target(n)] ]

\* Where the traversal goes after `node` has produced `state`: the conditional
\* edge's router result looked up in its mapping, or the node's plain edge.
\* A router result that the mapping lacks makes the traversal fail.
Unmapped == <<"!">>

NextNode(graph, node, state) ==
    IF node = graph.branch_from
    THEN LET key == _route_from_supervisor(state)
         IN  IF key \in DOMAIN graph.path_map THEN graph.path_map[key] ELSE Unmapped
    ELSE graph.edges[node]

-----------------------------------------------------------------------------
(* The egress webhook: rooms, deliveries and the server's jobs             *)

Rooms == {"room-a", "room-b"}

Origins == {"webhook", "manual"}

\* Number of webhook deliveries that may be in progress at once.
NumDeliveries == 2

Deliveries == 1..NumDeliveries

NoDelivery == [pc |-> "idle", room |-> "", outcome |-> ""]

\* No agent job is running.
NoJob == [pc |-> "idle"]

\* No recording is being served.
NoRequest == [pc |-> "idle"]

HooksIdle ==
    /\ active = [r \in Rooms, o \in Origins |-> 0]
    /\ hk = [d \in Deliveries |-> NoDelivery]
    /\ ep = NoJob
    /\ fr = NoRequest

-----------------------------------------------------------------------------
(* The facade                                                              *)

\* dict.get(key, default)
Get(d, key, default) == IF key \in DOMAIN d THEN d[key] ELSE default

DefaultInstructions == "You are a helpful assistant. Respond briefly."

\* The dict handed to ORCHESTRATOR.invoke.
InitialState(selected_lang, task_mode) ==
    [ selected_lang |-> selected_lang,
      task_mode     |-> task_mode,
      route         |-> <<>>,
      instructions  |-> "" ]

\* route, instructions = result.get(...), result.get(...)
Extract(result) ==
    [ route        |-> Get(result, "route", N_general_en),
      instructions |-> Get(result, "instructions", DefaultInstructions) ]

NoArg == [selected_lang |-> <<>>, task_mode |-> <<>>]
NoRet == [route |-> <<>>, instructions |-> ""]

\* get_orchestrated_instructions is entered: a fresh state goes to invoke.
Call(c, selected_lang, task_mode) ==
    /\ pc[c] = "idle"
    /\ pc' = [pc EXCEPT ![c] = "invoke"]
    /\ arg' = [arg EXCEPT ![c] = [selected_lang |-> selected_lang,
                                  task_mode |-> task_mode]]
    /\ st' = [st EXCEPT ![c] = InitialState(selected_lang, task_mode)]
    /\ next' = [next EXCEPT ![c] = ORCHESTRATOR.entry_point]
    /\ visited' = [visited EXCEPT ![c] = <<>>]
    /\ ret' = [ret EXCEPT ![c] = NoRet]
    /\ UNCHANGED <<ORCHESTRATOR, seen, hookVars, auxVars>>

\* One superstep of invoke: the pending node runs on the call's state and the
\* graph's edges name the node to run next.
Step(c) ==
    /\ pc[c] = "invoke"
    /\ next[c] \in ORCHESTRATOR.nodes
    /\ LET out == NodeFn(next[c], st[c])
           to  == NextNode(ORCHESTRATOR, next[c], out)
       IN  /\ st' = [st EXCEPT ![c] = out]
           /\ visited' = [visited EXCEPT ![c] = Append(@, next[c])]
           /\ next' = [next EXCEPT ![c] = to]
           /\ pc' = [pc EXCEPT ![c] = IF to = Unmapped THEN "raised" ELSE "invoke"]
    /\ UNCHANGED <<ORCHESTRATOR, arg, ret, seen, hookVars, auxVars>>

\* invoke has reached END and returns the state; the facade extracts the pair.
Returning(c) ==
    /\ pc[c] = "invoke"
    /\ next[c] = END
    /\ ret' = [ret EXCEPT ![c] = Extract(st[c])]
    /\ pc' = [pc EXCEPT ![c] = "returned"]
    /\ UNCHANGED <<ORCHESTRATOR, arg, next, st, visited, hookVars, auxVars>>

Return(c) == Returning(c) /\ UNCHANGED seen

\* The caller takes the pair (myagent.py:294); the call's state is discarded.
Discard(c) ==
    /\ pc[c] = "returned"
    /\ pc' = [pc EXCEPT ![c] = "idle"]
    /\ arg' = [arg EXCEPT ![c] = NoArg]
    /\ st' = [st EXCEPT ![c] = InitialState(<<>>, <<>>)]
    /\ visited' = [visited EXCEPT ![c] = <<>>]
    /\ ret' = [ret EXCEPT ![c] = NoRet]
    /\ UNCHANGED <<ORCHESTRATOR, next, seen, hookVars, auxVars>>

-----------------------------------------------------------------------------
(* The whole call, run alone                                               *)

Raised == [raised |-> TRUE]

\* ORCHESTRATOR.invoke run to its end without interruption.
RECURSIVE Traverse(_, _, _)
Traverse(graph, node, state) ==
    IF node = END THEN state
    ELSE IF node \notin graph.nodes THEN Raised
    ELSE LET out == NodeFn(node, state)
         IN  Traverse(graph, NextNode(graph, node, out), out)

get_orchestrated_instructions(selected_lang, task_mode) ==
    LET result == Traverse(build_orchestrator, build_orchestrator.entry_point,
                           InitialState(selected_lang, task_mode))
    IN  IF result = Raised THEN Raised ELSE Extract(result)

-----------------------------------------------------------------------------
(* Inputs                                                                  *)

\* Longest run of whitespace put before and after a task mode.
MaxPad == 1

PadChars == {" ", "\t"}

Pads == UNION {[1..k -> PadChars] : k \in 0..MaxPad}

UpperOf == [c \in {LowerChars[i] : i \in DOMAIN LowerChars} |->
               UpperChars[CHOOSE i \in DOMAIN LowerChars : LowerChars[i] = c]]

upper_char(c) == IF c \in DOMAIN UpperOf THEN UpperOf[c] ELSE c

upper(s) == [i \in 1..Len(s) |-> upper_char(s[i])]

capitalize(s) == [i \in 1..Len(s) |-> IF i = 1 THEN upper_char(s[i]) ELSE s[i]]

W_billing == <<"b","i","l","l","i","n","g">>
W_sal_es  == <<"s","a","l"," ","e","s">>
W_xx      == <<"x","x">>

BaseWords == SUPPORTED_MODES \cup {W_billing, W_sal_es, <<>>}

CasedWords == UNION {{w, upper(w), capitalize(w)} : w \in BaseWords}

\* Task modes a caller may pass: every base word in three casings, padded.
TaskModes == {l \o w \o r : l \in Pads, w \in CasedWords, r \in Pads}

\* Languages a caller may pass.
Langs == {W_hi, upper(W_hi), capitalize(W_hi), <<" ">> \o W_hi, W_hi \o <<" ">>,
          W_en, W_xx, <<>>}

-----------------------------------------------------------------------------
(* One caller, every input                                                 *)

SeqCallers == {"main"}

InitCallers(callers) ==
    /\ seen = {}
    /\ HooksIdle
    /\ ORCHESTRATOR = build_orchestrator
    /\ pc = [c \in callers |-> "idle"]
    /\ arg = [c \in callers |-> NoArg]
    /\ next = [c \in callers |-> END]
    /\ st = [c \in callers |-> InitialState(<<>>, <<>>)]
    /\ visited = [c \in callers |-> <<>>]
    /\ ret = [c \in callers |-> NoRet]

Init == InitCallers(SeqCallers)

Next ==
    \E c \in SeqCallers :
        \/ \E selected_lang \in Langs, task_mode \in TaskModes :
               Call(c, selected_lang, task_mode)
        \/ Step(c)
        \/ Return(c)
        \/ Discard(c)

Spec == Init /\ [][Next]_vars

\* The same caller with every language and every casing of every base word,
\* unpadded.  invoke is a synchronous loop: a pending node is run, a finished
\* traversal returns to the facade.
NextTraversal ==
    \E c \in SeqCallers :
        \/ \E selected_lang \in Langs, task_mode \in CasedWords :
               Call(c, selected_lang, task_mode)
        \/ Step(c)
        \/ Return(c)
        \/ Discard(c)

FairSpec ==
    /\ Init
    /\ [][NextTraversal]_vars
    /\ \A c \in SeqCallers :
          WF_vars(Step(c)) /\ WF_vars(Return(c))

-----------------------------------------------------------------------------
(* Claims about the route                                                  *)

ModePart(route) == SubSeq(route, 1, Len(route) - 3)

SuffixPart(route) == SubSeq(route, Len(route) - 1, Len(route))

LegalRoutes ==
    {mode \o <<"_">> \o suffix :
        mode \in {W_general, W_sales, W_support, W_technical},
        suffix \in {<<"h","i">>, <<"e","n">>}}

\* C1: whatever the inputs, the route the supervisor sets and the route the
\* facade returns is one of the 8 values <mode>_<suffix>, mode in {general,
\* sales, support, technical}, suffix in {hi, en}.
C1_RouteFormat ==
    /\ Cardinality(LegalRoutes) = 8
    /\ \A c \in DOMAIN pc :
        /\ visited[c] # <<>> => st[c]["route"] \in LegalRoutes
        /\ pc[c] = "returned" => ret[c].route \in LegalRoutes

\* A call with an unrecognized mode and an unrecognized language has returned.
C1_Witness ==
    \E c \in DOMAIN pc :
        /\ pc[c] = "returned"
        /\ arg[c].task_mode = W_billing
        /\ arg[c].selected_lang = W_xx
        /\ ret[c].route = N_general_en

\* C2: the call is total: no call ends in an error, and the route and the
\* instructions of every returned pair are non-empty strings.
C2_Total ==
    \A c \in DOMAIN pc :
        /\ pc[c] # "raised"
        /\ pc[c] = "returned" => ret[c].route # <<>> /\ ret[c].instructions # ""

\* A call with two empty strings has returned.
C2_Witness ==
    \E c \in DOMAIN pc :
        /\ pc[c] = "returned"
        /\ arg[c].task_mode = <<>>
        /\ arg[c].selected_lang = <<>>
        /\ ret[c].instructions = T_general_en

\* task_mode is `mode` in some casing between two runs of whitespace.
IsPaddedCasingOf(task_mode, mode) ==
    \E i \in 1..Len(task_mode) :
        /\ i + Len(mode) - 1 <= Len(task_mode)
        /\ \A k \in 1..Len(mode) : lower_char(task_mode[i + k - 1]) = mode[k]
        /\ \A k \in 1..(i - 1) : task_mode[k] \in Whitespace
        /\ \A k \in (i + Len(mode))..Len(task_mode) : task_mode[k] \in Whitespace

ExpectedMode(task_mode) ==
    IF \E mode \in SUPPORTED_MODES : IsPaddedCasingOf(task_mode, mode)
    THEN CHOOSE mode \in SUPPORTED_MODES : IsPaddedCasingOf(task_mode, mode)
    ELSE W_general

\* C3: the mode part of the returned route is the lower-cased, trimmed
\* task_mode when that is one of the four modes and "general" otherwise, and
\* no task_mode makes the call fail.
C3_ModePart ==
    \A c \in DOMAIN pc :
        /\ pc[c] # "raised"
        /\ pc[c] = "returned" =>
              ModePart(ret[c].route) = ExpectedMode(arg[c].task_mode)

\* " SALES " with language hi has returned sales_hi.
C3_Witness ==
    \E c \in DOMAIN pc :
        /\ pc[c] = "returned"
        /\ arg[c].task_mode = <<" ","S","A","L","E","S"," ">>
        /\ arg[c].selected_lang = W_hi
        /\ ret[c].route = N_sales_hi

\* C4: the suffix of the returned route is "hi" exactly when selected_lang is
\* the literal "hi", and "en" for every other selected_lang.
C4_LangSuffix ==
    \A c \in DOMAIN pc :
        pc[c] = "returned" =>
            SuffixPart(ret[c].route) =
                IF arg[c].selected_lang = <<"h","i">> THEN <<"h","i">> ELSE <<"e","n">>

\* "HI" and " hi" have been mapped to "en".
C4_Witness ==
    \E c \in DOMAIN pc :
        /\ pc[c] = "returned"
        /\ arg[c].selected_lang \in {<<"H","I">>, <<" ","h","i">>}
        /\ SuffixPart(ret[c].route) = W_en

-----------------------------------------------------------------------------
(* The facade on any traversal result                                      *)

Templates == {T_general_hi, T_general_en, T_sales_hi, T_sales_en,
              T_support_hi, T_support_en, T_technical_hi, T_technical_en}

Restrict(d, keys) == [k \in keys |-> d[k]]

\* What invoke could hand back: each of route and instructions set, still
\* empty as InitialState left it, or absent from the dict.
TraversalResults ==
    {Restrict(d, DOMAIN d \ absent) :
        d \in [selected_lang : {W_hi}, task_mode : {W_general},
               route : {<<>>} \cup Terminals,
               instructions : {""} \cup Templates],
        absent \in SUBSET {"route", "instructions"}}

\* invoke is about to return one of these results to the facade.
InitFacade ==
    /\ seen = {}
    /\ HooksIdle
    /\ ORCHESTRATOR = build_orchestrator
    /\ pc = [c \in SeqCallers |-> "invoke"]
    /\ arg = [c \in SeqCallers |-> [selected_lang |-> W_hi, task_mode |-> W_general]]
    /\ next = [c \in SeqCallers |-> END]
    /\ st \in [SeqCallers -> TraversalResults]
    /\ visited = [c \in SeqCallers |-> <<>>]
    /\ ret = [c \in SeqCallers |-> NoRet]

NextFacade == \E c \in SeqCallers : Return(c)

SpecFacade == InitFacade /\ [][NextFacade]_vars

RouteIncomplete(result) ==
    "route" \notin DOMAIN result \/ result["route"] = <<>>

InstructionsIncomplete(result) ==
    "instructions" \notin DOMAIN result \/ result["instructions"] = ""

-----------------------------------------------------------------------------
(* Claims about the traversal                                              *)

NoRepeat(seq) == \A i, j \in DOMAIN seq : i # j => seq[i] # seq[j]

TraversalShape(c) ==
    /\ Len(visited[c]) <= 2
    /\ NoRepeat(visited[c])
    /\ Len(visited[c]) >= 1 => visited[c][1] = <<"s","u","p","e","r","v","i","s","o","r">>
    /\ Len(visited[c]) = 2 =>
          /\ visited[c][2] \in LegalRoutes
          /\ visited[c][2] = st[c]["route"]
    /\ pc[c] = "invoke" /\ next[c] = END => Len(visited[c]) = 2
    /\ pc[c] = "returned" =>
          /\ Len(visited[c]) = 2
          /\ next[c] = END
          /\ visited[c][2] = ret[c].route

\* C6: every call runs one traversal that visits the supervisor once, then
\* the one terminal named by the route the supervisor set, then halts; no
\* node is visited twice, and every traversal that starts ends with a return.
C6_OneTraversal ==
    /\ [](\A c \in SeqCallers : TraversalShape(c))
    /\ \A c \in SeqCallers : (pc[c] = "invoke") ~> (pc[c] = "returned")

\* A call has returned after the supervisor and technical_hi ran, in that order.
C6_Witness ==
    \E c \in DOMAIN pc :
        /\ pc[c] = "returned"
        /\ visited[c] = <<N_supervisor, N_technical_hi>>
        /\ next[c] = END

TemplateOfRoute ==
    [ r \in LegalRoutes |->
        CASE r = N_general_hi   -> T_general_hi
          [] r = N_general_en   -> T_general_en
          [] r = N_sales_hi     -> T_sales_hi
          [] r = N_sales_en     -> T_sales_en
          [] r = N_support_hi   -> T_support_hi
          [] r = N_support_en   -> T_support_en
          [] r = N_technical_hi -> T_technical_hi
          [] r = N_technical_en -> T_technical_en ]

SupervisorRan(c) ==
    /\ pc[c] = "invoke"
    /\ next[c] = N_supervisor
    /\ visited'[c] # visited[c]

TerminalRan(c) ==
    /\ pc[c] = "invoke"
    /\ next[c] \in LegalRoutes
    /\ visited'[c] # visited[c]

FacadeReturned(c) == pc[c] = "invoke" /\ pc'[c] = "returned"

\* C9: the supervisor sets task_mode and route and leaves selected_lang and
\* the still empty instructions as they are; a terminal sets instructions, to
\* the template of its name, and leaves selected_lang, task_mode and route as
\* they are; the facade returns the route the supervisor set and the template
\* of the terminal of that name.
C9_Frame ==
    [][\A c \in SeqCallers :
        /\ SupervisorRan(c) =>
              /\ DOMAIN st'[c] = DOMAIN st[c]
              /\ st'[c]["selected_lang"] = st[c]["selected_lang"]
              /\ st'[c]["instructions"] = st[c]["instructions"]
              /\ st'[c]["instructions"] = ""
        /\ TerminalRan(c) =>
              /\ DOMAIN st'[c] = DOMAIN st[c]
              /\ st'[c]["selected_lang"] = st[c]["selected_lang"]
              /\ st'[c]["task_mode"] = st[c]["task_mode"]
              /\ st'[c]["route"] = st[c]["route"]
              /\ st'[c]["instructions"] = TemplateOfRoute[next[c]]
        /\ FacadeReturned(c) =>
              /\ ret'[c].route = st[c]["route"]
              /\ ret'[c].instructions = TemplateOfRoute[st[c]["route"]]
              /\ st[c]["selected_lang"] = arg[c].selected_lang
      ]_vars

\* The support_en terminal has run on a state whose task_mode the supervisor
\* normalized: instructions are set, the other three fields are as before.
C9_Witness ==
    \E c \in DOMAIN pc :
        /\ visited[c] = <<N_supervisor, N_support_en>>
        /\ arg[c].task_mode = <<"S","U","P","P","O","R","T">>
        /\ st[c]["task_mode"] = W_support
        /\ st[c]["selected_lang"] = W_xx
        /\ st[c]["instructions"] = T_support_en

-----------------------------------------------------------------------------
(* One caller, the pairs it has received recorded                          *)

CoverLangs == {W_hi, W_en, W_xx}

CoverModes == SUPPORTED_MODES \cup {W_billing}

ReturnObserved(c) == Returning(c) /\ seen' = seen \cup {ret'[c]}

NextCoverage ==
    \E c \in SeqCallers :
        \/ \E selected_lang \in CoverLangs, task_mode \in CoverModes :
               Call(c, selected_lang, task_mode)
        \/ Step(c)
        \/ ReturnObserved(c)
        \/ Discard(c)

SpecCoverage == Init /\ [][NextCoverage]_vars

\* C7: each of the 8 routes is returned for some input pair, and the
\* instructions returned for two different routes are different texts.
C7_Coverage ==
    /\ \A r \in LegalRoutes :
          \E selected_lang \in CoverLangs, task_mode \in CoverModes :
              get_orchestrated_instructions(selected_lang, task_mode).route = r
    /\ \A p, q \in seen : p.route # q.route => p.instructions # q.instructions

\* The caller has received all 8 routes, with 8 different texts.
C7_Witness ==
    /\ {p.route : p \in seen} = LegalRoutes
    /\ Cardinality({p.instructions : p \in seen}) = 8

-----------------------------------------------------------------------------
(* Several callers at once                                                 *)

\* Number of concurrent callers.
NumCallers == 2

ConcCallers == 1..NumCallers

ConcLangs == {W_hi, W_en}

ConcModes == {W_sales, <<" ">> \o upper(W_support), W_billing}

InitConc == InitCallers(ConcCallers)

NextConc ==
    \E c \in ConcCallers :
        \/ \E selected_lang \in ConcLangs, task_mode \in ConcModes :
               Call(c, selected_lang, task_mode)
        \/ Step(c)
        \/ Return(c)
        \/ Discard(c)

SpecConc == InitConc /\ [][NextConc]_vars

OwnState(c) == <<pc[c], arg[c], next[c], st[c], visited[c], ret[c]>>

\* C8: however the calls interleave and whatever calls came before, a call
\* returns the pair its inputs return when run alone, no call fails, a step of
\* one call leaves the state of every other call as it is, and the compiled
\* graph stays as build_orchestrator made it.
C8_Isolation ==
    /\ [](/\ ORCHESTRATOR = build_orchestrator
          /\ \A c \in ConcCallers :
                /\ pc[c] # "raised"
                /\ pc[c] = "returned" =>
                      ret[c] = get_orchestrated_instructions(arg[c].selected_lang,
                                                             arg[c].task_mode))
    /\ [][\E c \in ConcCallers :
            \A d \in ConcCallers \ {c} : OwnState(d)' = OwnState(d)]_vars

\* Two calls with different inputs are in flight together, one past its
\* supervisor, and a third pair has already been returned to the first caller.
C8_Witness ==
    /\ pc[1] = "returned"
    /\ ret[1].route = N_sales_hi
    /\ pc[2] = "invoke"
    /\ visited[2] # <<>>
    /\ st[2]["route"] = N_general_en

-----------------------------------------------------------------------------
(* The egress webhook                                                      *)

\* os.getenv("AUTO_RECORD_ON_SIP_JOIN", "true"): the default.
AUTO_RECORD_ON_SIP_JOIN == TRUE

\* Most egress jobs the server holds active at once.
MaxEgress == 3

RECURSIVE SumOver(_, _)
SumOver(f, keys) ==
    IF keys = {} THEN 0
    ELSE LET k == CHOOSE k \in keys : TRUE
         IN  f[k] + SumOver(f, keys \ {k})

TotalActive == SumOver(active, DOMAIN active)

\* A delivery as the handler sees it: the Authorization header, the event
\* name, the participant's kind and attribute keys, the room's name.
WebhookEvents ==
    [ authorization : {"missing", "invalid", "valid"},
      event         : {"participant_joined", "participant_left"},
      kind          : {"SIP", "STANDARD"},
      attributes    : {{}, {"sip.callID"}},
      room_name     : Rooms \cup {""} ]

_is_sip_participant(ev) ==
    \/ ev.kind = "SIP"
    \/ "sip.callID" \in ev.attributes
    \/ "sip.callIDFull" \in ev.attributes

Finished(outcome) == [pc |-> "done", room |-> "", outcome |-> outcome]

\* livekit_webhook up to its first await on the server: the early returns,
\* or the call of _already_recording_room.
Receive(d, ev) ==
    /\ hk[d].pc = "idle"
    /\ hk' = [hk EXCEPT ![d] =
          IF ~AUTO_RECORD_ON_SIP_JOIN THEN Finished("disabled")
          ELSE IF ev.authorization = "missing" THEN Finished("401")
          ELSE IF ev.authorization = "invalid" THEN Finished("401")
          ELSE IF ev.event # "participant_joined" THEN Finished("ok")
          ELSE IF ~_is_sip_participant(ev) THEN Finished("not-sip")
          ELSE IF ev.room_name = "" THEN Finished("no-room-name")
          ELSE [pc |-> "listing", room |-> ev.room_name, outcome |-> ""]]
    /\ UNCHANGED <<orchVars, seen, auxVars, active>>

\* for j in active: if rn == room_name: return True
_already_recording_room(listed, room_name) ==
    \E o \in Origins : listed[room_name, o] > 0

\* What follows the answer of _already_recording_room.
AfterCheck(d, already) ==
    hk' = [hk EXCEPT ![d] =
              IF already THEN Finished("already-running")
              ELSE [@ EXCEPT !.pc = "starting"]]

\* list_egress answers with the jobs active at that moment.
ListReturns(d) ==
    /\ hk[d].pc = "listing"
    /\ AfterCheck(d, _already_recording_room(active, hk[d].room))
    /\ UNCHANGED <<orchVars, seen, auxVars, active>>

\* list_egress raises: except Exception: return False.
ListRaises(d) ==
    /\ hk[d].pc = "listing"
    /\ AfterCheck(d, FALSE)
    /\ UNCHANGED <<orchVars, seen, auxVars, active>>

\* start_room_composite_egress succeeds: the server holds one more job.
StartSucceeds(d) ==
    /\ hk[d].pc = "starting"
    /\ TotalActive < MaxEgress
    /\ active' = [active EXCEPT ![hk[d].room, "webhook"] = @ + 1]
    /\ hk' = [hk EXCEPT ![d] = [pc |-> "done", room |-> hk[d].room,
                                outcome |-> "started"]]
    /\ UNCHANGED <<orchVars, seen, auxVars>>

\* start_room_composite_egress raises: HTTP 500.
StartRaises(d) ==
    /\ hk[d].pc = "starting"
    /\ hk' = [hk EXCEPT ![d] = Finished("500")]
    /\ UNCHANGED <<orchVars, seen, auxVars, active>>

\* The response is sent; the delivery is over.
Respond(d) ==
    /\ hk[d].pc = "done"
    /\ hk' = [hk EXCEPT ![d] = NoDelivery]
    /\ UNCHANGED <<orchVars, seen, auxVars, active>>

\* POST /egress/start: an operator starts a recording of a room.
start_egress(room_name) ==
    /\ TotalActive < MaxEgress
    /\ active' = [active EXCEPT ![room_name, "manual"] = @ + 1]
    /\ UNCHANGED <<orchVars, seen, auxVars, hk>>

\* POST /egress/{egress_id}/stop, or the job ending by itself.
stop_egress(room_name, origin) ==
    /\ active[room_name, origin] > 0
    /\ active' = [active EXCEPT ![room_name, origin] = @ - 1]
    /\ UNCHANGED <<orchVars, seen, auxVars, hk>>

InitWebhook == InitCallers(SeqCallers)

NextWebhook ==
    \/ \E d \in Deliveries :
        \/ \E ev \in WebhookEvents : Receive(d, ev)
        \/ ListReturns(d)
        \/ ListRaises(d)
        \/ StartSucceeds(d)
        \/ StartRaises(d)
        \/ Respond(d)
    \/ \E room_name \in Rooms : start_egress(room_name)
    \/ \E room_name \in Rooms, origin \in Origins : stop_egress(room_name, origin)

SpecWebhook == InitWebhook /\ [][NextWebhook]_vars

\* C10: whatever the deliveries of SIP participant_joined events for a room
\* and however they interleave, at most one of the egress jobs the webhook
\* started for that room is active at a time.
C10_OneAutoRecording ==
    \A r \in Rooms : active[r, "webhook"] <= 1

-----------------------------------------------------------------------------
(* The agent job: entrypoint                                               *)

\* A value json.loads can produce: its Python type and, for a str, its text.
JStr(text) == [t |-> "str", s |-> text]
JNull      == [t |-> "NoneType", s |-> <<>>]
JInt       == [t |-> "int", s |-> <<>>]
JBool      == [t |-> "bool", s |-> <<>>]
JList      == [t |-> "list", s |-> <<>>]
JDict      == [t |-> "dict", s |-> <<>>]

W_sarvam == <<"s","a","r","v","a","m">>
W_gemini == <<"g","e","m","i","n","i">>

NotStrings == {JNull, JInt, JBool, JList, JDict}

LanguageValues == {JStr(W_hi), JStr(W_en), JInt, JNull}

VoiceValues == {JStr(W_sarvam), JStr(W_gemini), JStr(W_xx), JNull}

ModeValues ==
    {JStr(W_sales), JStr(<<" ">> \o upper(W_support)), JStr(W_billing), JStr(<<>>)}
        \cup NotStrings

\* The JSON objects a participant may send: each of the three keys absent or
\* holding one of the values above.
MetadataObjects ==
    {Restrict(d, DOMAIN d \ absent) :
        d \in [language : LanguageValues, voice : VoiceValues, mode : ModeValues],
        absent \in SUBSET {"language", "voice", "mode"}}

\* participant.metadata: unset or empty, text that is not JSON, JSON that is
\* not an object, or a JSON object.
Metadata ==
    {[kind |-> "empty"], [kind |-> "invalid"]}
        \cup {[kind |-> "value", value |-> v] :
                 v \in (NotStrings \ {JDict}) \cup {JStr(W_hi)}}
        \cup {[kind |-> "object", fields |-> d] : d \in MetadataObjects}

\* Lines 243-259: the defaults, overridden key by key from a JSON object; a
\* failure of json.loads or of meta.get (no such method on a non-object) is
\* caught and leaves what was assigned so far, which is the defaults.
ReadMetadata(metadata) ==
    LET defaults == [selected_lang  |-> JStr(W_hi),
                     selected_voice |-> JStr(W_sarvam),
                     selected_mode  |-> JStr(W_general)]
    IN  IF metadata.kind = "object"
        THEN [selected_lang  |-> Get(metadata.fields, "language", JStr(W_hi)),
              selected_voice |-> Get(metadata.fields, "voice", JStr(W_sarvam)),
              selected_mode  |-> Get(metadata.fields, "mode", JStr(W_general))]
        ELSE defaults

\* A str argument as the orchestrator's operators take it; a value of another
\* type stands as its type's name, which no comparison with a str equals.
AsText(v) == IF v.t = "str" THEN v.s ELSE <<v.t>>

\* state["task_mode"].lower() needs a str: any other type has no lower().
task_mode_has_lower(task_mode) == task_mode.t = "str"

\* Lines 293-297: the call of get_orchestrated_instructions with the locals.
Orchestrate(selected_lang, selected_mode) ==
    IF ~task_mode_has_lower(selected_mode)
    THEN Raised
    ELSE get_orchestrated_instructions(AsText(selected_lang), AsText(selected_mode))

\* Lines 261-268: the STT language, "hi" for the str "hi" alone.
stt_lang(selected_lang) == IF selected_lang = JStr(W_hi) THEN W_hi ELSE W_en

\* Lines 270-291: the TTS engine, the fallback for any voice but the two names.
tts(selected_voice) ==
    IF selected_voice = JStr(W_sarvam) THEN "sarvam bulbul:v2"
    ELSE IF selected_voice = JStr(W_gemini) THEN "gemini"
    ELSE "sarvam fallback"

\* ctx.wait_for_participant() returns a participant with its metadata.
Join(metadata) ==
    /\ ep.pc = "idle"
    /\ ep' = [pc |-> "joined", metadata |-> metadata]
    /\ UNCHANGED <<orchVars, seen, hookVars, fr>>

\* Lines 243-297, which hold no await: metadata read, STT and TTS chosen, the
\* orchestrator called.  An error of the call leaves entrypoint.
Setup ==
    /\ ep.pc = "joined"
    /\ LET locals == ReadMetadata(ep.metadata)
           got    == Orchestrate(locals.selected_lang, locals.selected_mode)
           chosen == [stt_lang |-> stt_lang(locals.selected_lang),
                      tts      |-> tts(locals.selected_voice)] @@ locals
       IN  ep' = IF got = Raised
                 THEN [pc |-> "failed", metadata |-> ep.metadata, locals |-> chosen]
                 ELSE [pc |-> "ready", metadata |-> ep.metadata, locals |-> chosen,
                       orchestration_route |-> got.route,
                       instructions |-> got.instructions]
    /\ UNCHANGED <<orchVars, seen, hookVars, fr>>

\* Lines 299-313: the session is started with the instructions.
StartSession ==
    /\ ep.pc = "ready"
    /\ ep' = [ep EXCEPT !.pc = "started"]
    /\ UNCHANGED <<orchVars, seen, hookVars, fr>>

\* The job is over, by the session's end or by the error.
JobEnds ==
    /\ ep.pc \in {"started", "failed"}
    /\ ep' = NoJob
    /\ UNCHANGED <<orchVars, seen, hookVars, fr>>

NextEntry ==
    \/ \E metadata \in Metadata : Join(metadata)
    \/ Setup
    \/ StartSession
    \/ JobEnds

SpecEntry == Init /\ [][NextEntry]_vars

\* C11: whatever metadata the participant carries, entrypoint's call of
\* get_orchestrated_instructions ends without an error and gives one of the 8
\* routes with non-empty instructions.
C11_EntrypointTotal ==
    /\ ep.pc # "failed"
    /\ ep.pc \in {"ready", "started"} =>
          /\ ep.orchestration_route \in LegalRoutes
          /\ ep.instructions # ""

-----------------------------------------------------------------------------
(* Recordings served with Range support                                    *)

\* The largest recording, in bytes.
MaxFileSize == 5

\* The largest chunk_size a caller of iter_file_range passes.
MaxChunk == 3

\* The chunk_size parameter's default, which serve_recording leaves in place.
DefaultChunkSize == 1048576

\* The recording of n bytes; byte i holds a value of its own, so that bytes
\* taken from the wrong place show.
FileOfSize(n) == [i \in 1..n |-> i]

DigitChars == <<"0", "1", "2", "3", "4", "5", "6", "7", "8", "9">>

Digits == {DigitChars[i] : i \in DOMAIN DigitChars}

DigitValue == [c \in Digits |-> (CHOOSE i \in DOMAIN DigitChars : DigitChars[i] = c) - 1]

\* The value of a non-empty run of decimal digits.
RECURSIVE digits_value(_)
digits_value(s) ==
    IF s = <<>> THEN 0
    ELSE 10 * digits_value(SubSeq(s, 1, Len(s) - 1)) + DigitValue[s[Len(s)]]

ValueError == [ok |-> FALSE]

\* int(text): surrounding whitespace dropped, one optional sign, then digits
\* and nothing else; ValueError otherwise.
int(text) ==
    LET t      == strip(text)
        signed == t # <<>> /\ t[1] \in {"+", "-"}
        body   == IF signed THEN Tail(t) ELSE t
    IN  IF body = <<>> \/ \E i \in 1..Len(body) : body[i] \notin Digits
        THEN ValueError
        ELSE [ok    |-> TRUE,
              value |-> IF signed /\ t[1] = "-" THEN 0 - digits_value(body)
                        ELSE digits_value(body)]

\* text.split(sep, 1): cut at the first sep, or the text alone in a list of one.
split1(text, sep) ==
    LET at == {i \in 1..Len(text) : text[i] = sep}
    IN  IF at = {} THEN <<text>>
        ELSE LET i == CHOOSE j \in at : \A k \in at : j <= k
             IN  <<SubSeq(text, 1, i - 1), SubSeq(text, i + 1, Len(text))>>

W_bytes == <<"b", "y", "t", "e", "s">>

HTTP_416 == [ok |-> FALSE, status_code |-> 416]

\* parse_range_header: every failure inside the try (an unpacking of a list of
\* one, a unit other than bytes, an int() that raises) is answered 416, and so
\* is a pair out of order or outside the file.
parse_range_header(range_header, file_size) ==
    LET parts == split1(range_header, "=")
    IN  IF Len(parts) # 2 THEN HTTP_416
        ELSE IF lower(strip(parts[1])) # W_bytes THEN HTTP_416
        ELSE LET pair == split1(parts[2], "-")
             IN  IF Len(pair) # 2 THEN HTTP_416
                 ELSE LET start_s == pair[1]
                          end_s   == pair[2]
                          start   == IF start_s # <<>> THEN int(start_s)
                                     ELSE [ok |-> TRUE, value |-> 0]
                          end     == IF end_s # <<>> THEN int(end_s)
                                     ELSE [ok |-> TRUE, value |-> file_size - 1]
                      IN  IF ~start.ok \/ ~end.ok THEN HTTP_416
                          ELSE IF \/ start.value < 0
                                  \/ end.value < start.value
                                  \/ end.value > file_size - 1
                               THEN HTTP_416
                          ELSE [ok |-> TRUE, start |-> start.value, end |-> end.value]

\* The texts a client may put where a number of the range goes.
NumberTexts ==
    {<<>>} \cup {<<DigitChars[i + 1]>> : i \in 0..MaxFileSize}
           \cup {<<"0", "1">>, <<"1", "0">>, <<" ", "2">>, <<"-", "1">>, <<"x">>}

UnitTexts == {W_bytes, <<" ", "B", "y", "t", "e", "s">>, <<"i", "t", "e", "m", "s">>}

\* request.headers.get("range"): absent (empty here, as falsy as None), or a
\* text with or without its "=" and its "-".
RangeHeaders ==
    {<<>>} \cup UnitTexts
        \cup {u \o <<"=">> \o a : u \in UnitTexts, a \in NumberTexts}
        \cup {u \o <<"=">> \o a \o <<"-">> \o b :
                 u \in UnitTexts, a \in NumberTexts, b \in NumberTexts}

\* Mutant: a read of chunk_size bytes whatever is left of the range.
to_read_unclamped(chunk_size, end, pos) == chunk_size

\* Line 91: no more than what is left up to end.
to_read(chunk_size, end, pos) ==
    IF chunk_size <= end + 1 - pos THEN chunk_size ELSE end + 1 - pos

\* f.read(size) of a buffered file at pos: size bytes, fewer at the end of the
\* file, none past it.
read(file, pos, size) ==
    SubSeq(file, pos + 1, IF pos + size <= Len(file) THEN pos + size ELSE Len(file))

\* The generator iter_file_range returns, its file open at position 0 and no
\* line of its body run yet.
Generator(file, start, end, chunk_size, headers) ==
    [pc |-> "created", file |-> file, start |-> start, end |-> end,
     chunk_size |-> chunk_size, pos |-> 0, chunks |-> <<>>, headers |-> headers]

\* serve_recording for a file of file_size bytes: 416 from parse_range_header,
\* or the StreamingResponse over iter_file_range with the default chunk_size.
\* Content-Length is kept as the number whose str() the header holds.
serve_recording(file_size, range_header) ==
    /\ fr.pc = "idle"
    /\ LET parsed == parse_range_header(range_header, file_size)
           file   == FileOfSize(file_size)
       IN  fr' = IF range_header # <<>>
                 THEN IF ~parsed.ok
                      THEN [pc |-> "rejected", status_code |-> parsed.status_code,
                            range_header |-> range_header, file |-> file]
                      ELSE Generator(file, parsed.start, parsed.end, DefaultChunkSize,
                               [status_code |-> 206, range_header |-> range_header,
                                ContentLength |-> parsed.end - parsed.start + 1])
                 ELSE Generator(file, 0, file_size - 1, DefaultChunkSize,
                          [status_code |-> 200, range_header |-> range_header,
                           ContentLength |-> file_size])
    /\ UNCHANGED <<orchVars, seen, hookVars, ep>>

\* iter_file_range called with a chunk_size of the caller's.
iter_file_range(file_size, start, end, chunk_size) ==
    /\ fr.pc = "idle"
    /\ fr' = Generator(FileOfSize(file_size), start, end, chunk_size, <<>>)
    /\ UNCHANGED <<orchVars, seen, hookVars, ep>>

\* Line 89, at the first next(): f.seek(start).
Seek ==
    /\ fr.pc = "created"
    /\ fr' = [fr EXCEPT !.pc = "loop", !.pos = fr.start]
    /\ UNCHANGED <<orchVars, seen, hookVars, ep>>

\* What line 92 reads at the head of the loop.
Data == read(fr.file, fr.pos, to_read(fr.chunk_size, fr.end, fr.pos))

\* Lines 90-95: pos is within the range and the read gave bytes, which are
\* yielded; f.tell() has moved past them.
Yield ==
    /\ fr.pc = "loop"
    /\ fr.pos <= fr.end
    /\ Data # <<>>
    /\ fr' = [fr EXCEPT !.chunks = Append(@, Data), !.pos = @ + Len(Data)]
    /\ UNCHANGED <<orchVars, seen, hookVars, ep>>

\* Lines 88, 90, 93-94: the loop ends, by its condition or by an empty read,
\* and the with block closes the file.
Close ==
    /\ fr.pc = "loop"
    /\ fr.pos > fr.end \/ Data = <<>>
    /\ fr' = [fr EXCEPT !.pc = "closed"]
    /\ UNCHANGED <<orchVars, seen, hookVars, ep>>

\* The response, streamed or 416, has been sent.
Sent ==
    /\ fr.pc \in {"closed", "rejected"}
    /\ fr' = NoRequest
    /\ UNCHANGED <<orchVars, seen, hookVars, ep>>

FileSizes == 0..MaxFileSize

NextRange ==
    \/ \E n \in FileSizes, h \in RangeHeaders : serve_recording(n, h)
    \/ \E n \in FileSizes, start \in 0..MaxFileSize, end \in 0..MaxFileSize,
          chunk_size \in 1..MaxChunk :
          /\ start <= end
          /\ end <= n - 1
          /\ iter_file_range(n, start, end, chunk_size)
    \/ Seek
    \/ Yield
    \/ Close
    \/ Sent

\* The response's consumer keeps asking the generator for its next chunk.
SpecRange ==
    Init /\ [][NextRange]_vars
         /\ WF_vars(Seek) /\ WF_vars(Yield) /\ WF_vars(Close)

RECURSIVE Concat(_)
Concat(chunks) ==
    IF chunks = <<>> THEN <<>> ELSE Head(chunks) \o Concat(Tail(chunks))

Streaming == fr.pc \in {"created", "loop", "closed"}

RangeAccepted ==
    /\ 0 <= fr.start
    /\ fr.start <= fr.end
    /\ fr.end <= Len(fr.file) - 1

\* What has been yielded is the file from start up to where the file stands,
\* chunk by chunk within chunk_size and never past end; at the close it is all
\* of start..end, as long as Content-Length said.
ExactBytes ==
    Streaming /\ RangeAccepted =>
        /\ fr.pc # "created" => Concat(fr.chunks) = SubSeq(fr.file, fr.start + 1, fr.pos)
        /\ \A i \in 1..Len(fr.chunks) :
               Len(fr.chunks[i]) >= 1 /\ Len(fr.chunks[i]) <= fr.chunk_size
        /\ fr.pos <= fr.end + 1
        /\ fr.pc = "closed" =>
               /\ Concat(fr.chunks) = SubSeq(fr.file, fr.start + 1, fr.end + 1)
               /\ Len(Concat(fr.chunks)) = fr.end - fr.start + 1
               /\ "ContentLength" \in DOMAIN fr.headers =>
                      fr.headers.ContentLength = Len(Concat(fr.chunks))

\* C12: for a file of n bytes, a pair 0 <= start <= end <= n-1 (every pair
\* parse_range_header accepts is one) and a chunk_size >= 1, iter_file_range
\* comes to its end, and its chunks are in order bytes start..end of the file,
\* end-start+1 of them in all as Content-Length says, each chunk no longer than
\* chunk_size, no byte past end read.
C12_RangeExact ==
    /\ [](Streaming /\ "range_header" \in DOMAIN fr.headers
             /\ fr.headers.range_header # <<>> => RangeAccepted)
    /\ []ExactBytes
    /\ (fr.pc = "created") ~> (fr.pc = "closed")

\* A range inside the file has been streamed in several chunks, the last one
\* cut short of chunk_size at end.
C12_Witness ==
    /\ fr.pc = "closed"
    /\ fr.start > 0
    /\ fr.end < Len(fr.file) - 1
    /\ Len(fr.chunks) >= 2
    /\ Len(fr.chunks[Len(fr.chunks)]) < fr.chunk_size

=============================================================================
